---- MODULE Spec2Model ----
(***************************************************************************)
(* The session orchestrator of cloudflare-agent/src/server.ts (class       *)
(* SystemAgent): one durable per-user actor holding history, preferences,  *)
(* an optional pending action, a fixed-window rate limiter and a registry  *)
(* of schedules.  Every handler (an HTTP route of onRequest, a chat        *)
(* message of onMessage, a firing of executeScheduledAction) is one        *)
(* action.  The completion service, the execution agent ("bridge") and the *)
(* platform's trigger table are the environment: their answers are chosen  *)
(* with \E from small sets.                                                *)
(*                                                                         *)
(* JS objects (args) are sets of <<key, value>> pairs; an optional field   *)
(* (pendingAction?, rateLimit?) is a set holding no or one record.         *)
(***************************************************************************)
EXTENDS Integers, Sequences, FiniteSets, TLC

VARIABLES
    history,          \* SystemState.history
    preferences,      \* SystemState.preferences
    lastActive,       \* SystemState.lastActive
    pendingAction,    \* SystemState.pendingAction?  ({} = undefined)
    rateLimit,        \* SystemState.rateLimit?      ({} = undefined)
    scheduleRegistry, \* SystemState.scheduleRegistry
    triggers,         \* the platform's live triggers made by this.schedule()
    nextId,           \* ids handed out by this.schedule()
    now,              \* Date.now()
    steps,            \* state-changing requests handled so far
    log,              \* every entry appended to history since it was last emptied
    out,              \* what the last handler did: calls made and the reply
    reachable,        \* the execution agent can be reached at BRIDGE_URL
    connections,      \* this.connections: the ids of the open WebSockets
    arg,              \* the argument of a function evaluated on its own
    ret,              \* what that function returned
    tasks             \* the handlers suspended at an await, with their locals

vars == <<history, preferences, lastActive, pendingAction, rateLimit,
          scheduleRegistry, triggers, nextId, now, steps, log, out, reachable,
          connections, arg, ret, tasks>>

-----------------------------------------------------------------------------
(* Program constants *)

RATE_LIMIT == 60
RATE_WINDOW == 60 * 1000
HISTORY_CAP == 50

(* Bounds of the model *)

MaxSteps == 3

\* the clock is read at the start of a window and at its end
TickMs == RATE_WINDOW
MaxNow == RATE_WINDOW

-----------------------------------------------------------------------------
(* JS objects as sets of <<key, value>> pairs *)

Undefined == "undefined"

Has(obj, k) == \E p \in obj : p[1] = k

Get(obj, k) == IF Has(obj, k) THEN (CHOOSE p \in obj : p[1] = k)[2] ELSE Undefined

\* { ...obj, k: v }
Put(obj, k, v) == {p \in obj : p[1] # k} \cup {<<k, v>>}

\* JS truthiness of a string-or-undefined value
Truthy(v) == v # Undefined /\ v # ""

Max(a, b) == IF a > b THEN a ELSE b

\* Array.prototype.slice(-n)
SliceLast(s, n) == IF Len(s) <= n THEN s ELSE SubSeq(s, Len(s) - n + 1, Len(s))

\* [...].slice(-50) of lines 344, 358, 368, 437, 450, 490, 494
Mut_Slice50_KeepOldest(s) == IF Len(s) <= HISTORY_CAP THEN s ELSE SubSeq(s, 1, HISTORY_CAP)
Slice50(s) == SliceLast(s, HISTORY_CAP)

User(m) == [role |-> "user", content |-> m]
Assistant(c) == [role |-> "assistant", content |-> c]

-----------------------------------------------------------------------------
(* Inputs: the user messages a client may send *)

Messages == {"Yes!", "no", "text John saying hi", "write John something"}

\* the message tried on the WebSocket
WsMessages == {"Yes!"}

\* message.trim() under the /i flag of the grammars: the trimmed, lower-cased text
Canon(m) == IF m = "Yes!" THEN "yes!" ELSE m

ConfirmWords == {"yes", "yeah", "yep", "yup", "sure", "ok", "okay", "do it",
                 "send it", "confirm", "go ahead", "please", "y"}
CancelWords == {"no", "nope", "cancel", "stop", "don't", "nevermind",
                "never mind", "abort", "n"}
\* \.?!?$
Tails == {"", ".", "!", ".!"}

isConfirmation(m) == \E w \in ConfirmWords, t \in Tails : Canon(m) = w \o t

isCancellation(m) == \E w \in CancelWords, t \in Tails : Canon(m) = w \o t

\* /make\s*up|create|write|generate/i.test(message)
wantsGenerated(m) == m \in {"write John something"}

\* the fallback patterns /(?:saying|say)\s+["']?(.+?)["']?$/i and
\* /(?:that|to say)\s+["']?(.+?)["']?$/i applied to the user message
saidText(m) == IF m = "text John saying hi" THEN "hi" ELSE ""

-----------------------------------------------------------------------------
(* The execution agent: what POST /execute may answer to callBridge *)

\* what callBridge returns, with how its fetch ended and the execute requests
\* it sent
Ok(r) == [success |-> TRUE, result |-> r, error |-> Undefined,
          fetch |-> "answered", requests |-> 1]
Err(e) == [success |-> FALSE, result |-> Undefined, error |-> e,
           fetch |-> IF e = "Timeout" THEN "aborted" ELSE "failed", requests |-> 1]

FoundJohn == "John Appleseed: +1 (555) 123-4567"

\* how the one fetch of callBridge may end: a bridge that can be reached
\* answers, or the abort of line 742 comes first; with no bridge to reach,
\* fetch raises
FetchEnds == IF reachable THEN {"answered", "aborted"} ELSE {"failed"}

\* lines 740-761: the result for each end of the fetch
Mut_resultOf_Retries(tool, end) ==
    CASE end = "answered" -> Ok(IF tool = "search_contacts" THEN FoundJohn ELSE "ok")
      [] end = "aborted" -> [Err("Timeout") EXCEPT !.requests = 2]
      [] OTHER -> [Err("Bridge unreachable") EXCEPT !.requests = 2]
resultOf(tool, end) ==
    CASE end = "answered" -> Ok(IF tool = "search_contacts" THEN FoundJohn ELSE "ok")
      [] end = "aborted" -> Err("Timeout")
      [] OTHER -> Err("Bridge unreachable")

callBridge(tool, args) == {resultOf(tool, end) : end \in FetchEnds}

\* result.result.match(/[\+]?1?[\s\-\.]?\(?\d{3}\)?.../) with separators removed
phoneOf(result) == IF result = FoundJohn THEN "+15551234567" ELSE ""

\* result.result.toLowerCase().includes('error')
mentionsError(result) == FALSE

\* result.success ? result.result : result.error
Shown(r) == IF r.success THEN r.result ELSE r.error

-----------------------------------------------------------------------------
(* The completion service: the texts callClaude may return.  A text is its *)
(* prose and its fenced blocks; a block's JSON either parses or does not.  *)

\* A `when` text is held with what the patterns of parseWhen capture in it:
\* form is the first pattern of parseWhen that matches the text ("none" when
\* none does and new Date(text) is invalid, "absent" when the directive has
\* no string `when`), fields are the five fields of a cron text, n and unit
\* the captures of "in N units" (n is the instant in ms of a date text, the
\* N of "every N hours"), hour, minute (no or one number) and ampm those of
\* "every day at" and "every weekday at".
When(form, text, fields, n, unit, hour, minute, ampm) ==
    [form |-> form, text |-> text, fields |-> fields, n |-> n, unit |-> unit,
     hour |-> hour, minute |-> minute, ampm |-> ampm]

\* fields joined by single spaces
Join(fields) ==
    fields[1] \o " " \o fields[2] \o " " \o fields[3] \o " " \o fields[4] \o " " \o fields[5]

TwoDigits(k) == IF k < 10 THEN "0" \o ToString(k) ELSE ToString(k)

CronText(fields) == When("cron", Join(fields), fields, 0, "", 0, {}, "")
RelativeText(n, unit) ==
    When("relative", "in " \o ToString(n) \o " " \o unit \o "s", <<>>, n, unit, 0, {}, "")
ClockText(form, lead, hour, minute, ampm) ==
    When(form,
         lead \o ToString(hour)
              \o (IF minute = {} THEN "" ELSE ":" \o TwoDigits(CHOOSE k \in minute : TRUE))
              \o ampm,
         <<>>, 0, "", hour, minute, ampm)
DailyText(hour, minute, ampm) == ClockText("daily", "every day at ", hour, minute, ampm)
WeekdayText(hour, minute, ampm) == ClockText("weekday", "every weekday at ", hour, minute, ampm)
PlainText(form, text) == When(form, text, <<>>, 0, "", 0, {}, "")

NoWhen == PlainText("none", "")
InFiveMinutes == RelativeText(5, "minute")
DailyCron == CronText(<<"0", "17", "*", "*", "*">>)
\* a cron text written only with digits
DigitsCron == CronText(<<"0", "9", "1", "1", "1">>)

Block(fence, tool, args, when, description, key, value) ==
    [fence |-> fence, ok |-> TRUE, tool |-> tool, args |-> args, when |-> when,
     description |-> description, key |-> key, value |-> value]

ActionBlock(tool, args) == Block("action", tool, args, NoWhen, "", "", "")
ScheduleBlock(when, tool, args, d) == Block("schedule", tool, args, when, d, "", "")
PreferenceBlock(k, v) == Block("preference", "", {}, NoWhen, "", k, v)

\* a completion text: its name, its prose and its fenced blocks in order
Completion(raw, prose, blocks) == [raw |-> raw, prose |-> prose, blocks |-> blocks]

\* a completion text that is nothing but fenced blocks
Response(raw, blocks) == Completion(raw, "", blocks)

\* a fenced block whose content JSON.parse rejects
BadBlock(fence) == [Block(fence, "", {}, NoWhen, "", "", "") EXCEPT !.ok = FALSE]

\* the `when` of a schedule object that has no string `when`
NoWhenField == PlainText("absent", "")

JohnHi == {<<"to", "+15551234567">>, <<"message", "hi">>}

Responses == {
    Response("r_search", <<ActionBlock("search_contacts", {<<"query", "John">>})>>),
    Response("r_once", <<PreferenceBlock("wife", "Ann"),
                         ScheduleBlock(InFiveMinutes, "send_imessage", JohnHi, "Text John"),
                         ActionBlock("send_imessage", JohnHi)>>),
    Response("r_daily", <<ScheduleBlock(DailyCron, "send_imessage",
                                JohnHi, "Text John")>>) }

\* the action blocks whose JSON parses and names a tool, in order
parseActions(resp) ==
    LET good(b) == b.fence = "action" /\ b.ok /\ Truthy(b.tool)
    IN  SelectSeq(resp.blocks, good)

\* the first schedule block, when its JSON parses
parseSchedule(resp) ==
    LET s == SelectSeq(resp.blocks, LAMBDA b : b.fence = "schedule")
    IN  IF s # <<>> /\ s[1].ok THEN {s[1]} ELSE {}

\* the first preference block, when its JSON parses
parsePreference(resp) ==
    LET s == SelectSeq(resp.blocks, LAMBDA b : b.fence = "preference")
    IN  IF s # <<>> /\ s[1].ok THEN {s[1]} ELSE {}

\* lines 687, 693 and 703: every action block is cut out of the text; the
\* first schedule block and the first preference block are cut out when their
\* JSON parses.  The text is the prose and the fences of the blocks left in it.
leftInText(resp) ==
    LET first(fence) == CHOOSE i \in 1..Len(resp.blocks) :
                            /\ resp.blocks[i].fence = fence
                            /\ \A j \in 1..(i - 1) : resp.blocks[j].fence # fence
        cut(i) == \/ resp.blocks[i].fence = "action"
                  \/ resp.blocks[i].ok /\ i = first(resp.blocks[i].fence)
        keep(i, acc) == IF cut(i) THEN acc ELSE Append(acc, resp.blocks[i].fence)
        RECURSIVE walk(_, _)
        walk(i, acc) == IF i > Len(resp.blocks) THEN acc ELSE walk(i + 1, keep(i, acc))
    IN  walk(1, <<>>)

\* line 710: text || "Done!"
parseText(resp) ==
    IF resp.prose = "" /\ leftInText(resp) = <<>>
    THEN [prose |-> "Done!", blocks |-> <<>>]
    ELSE [prose |-> resp.prose, blocks |-> leftInText(resp)]

NoText == [prose |-> "", blocks |-> <<>>]

-----------------------------------------------------------------------------
(* parseWhen and the record scheduleAction builds *)

Mult(unit) == CASE unit = "second" -> 1000
                [] unit = "minute" -> 60000
                [] unit = "hour" -> 3600000
                [] unit = "day" -> 86400000

\* what parseWhen returns: a cron string, held with its fields, or a Date
CronOf(fields) == [kind |-> "cron", expr |-> Join(fields), fields |-> fields, at |-> 0]
DateOf(at) == [kind |-> "date", expr |-> "", fields |-> <<>>, at |-> at]

\* lines 522-526 and 538-541: the hour and minute of a cron made from a clock time
minuteOf(when) == IF when.minute = {} THEN 0 ELSE CHOOSE k \in when.minute : TRUE
Mut_dailyHour_Plain(when) == when.hour
dailyHour(when) ==
    LET h == IF when.ampm = "pm" /\ when.hour < 12 THEN when.hour + 12 ELSE when.hour
    IN  IF when.ampm = "am" /\ h = 12 THEN 0 ELSE h
weekdayHour(when) ==
    IF when.ampm = "pm" /\ when.hour < 12 THEN when.hour + 12 ELSE when.hour

\* line 515: when.trim() of a `when` that is no string raises a TypeError
Thrown == [kind |-> "throw", expr |-> "", fields |-> <<>>, at |-> 0]

\* parseWhen at Date.now() = t: the patterns in the order the code tries them
parseWhen(when, t) ==
    CASE when.form = "absent" -> Thrown
      [] when.form = "cron" -> CronOf(when.fields)
      [] when.form = "daily" ->
            CronOf(<<ToString(minuteOf(when)), ToString(dailyHour(when)), "*", "*", "*">>)
      [] when.form = "hourly" -> CronOf(<<"0", "*", "*", "*", "*">>)
      [] when.form = "morning" -> CronOf(<<"0", "7", "*", "*", "*">>)
      [] when.form = "evening" -> CronOf(<<"0", "18", "*", "*", "*">>)
      [] when.form = "everyHours" ->
            CronOf(<<"0", "*/" \o ToString(when.n), "*", "*", "*">>)
      [] when.form = "weekday" ->
            CronOf(<<ToString(minuteOf(when)), ToString(weekdayHour(when)), "*", "*", "1-5">>)
      [] when.form = "relative" -> DateOf(t + when.n * Mult(when.unit))
      [] when.form = "date" -> DateOf(when.n)
      [] OTHER -> DateOf(t + 60000)

\* no call of parseWhen has returned yet
NotEvaluated == [kind |-> "none", expr |-> "", fields |-> <<>>, at |-> 0]

\* a field of a cron string with a "*" in it
StarFields == {"*"} \cup {"*/" \o ToString(k) : k \in 1..23}
hasStar(field) == field \in StarFields

\* when.includes("*") on the string parseWhen returned
includesStar(when) == \E i \in 1..Len(when.fields) : hasStar(when.fields[i])

-----------------------------------------------------------------------------
(* checkRateLimit *)

Mut_allowedAt_Strict(count) == count < RATE_LIMIT
allowedAt(count) == count <= RATE_LIMIT

windowOver(rl, t) == rl = {} \/ \E r \in rl : t >= r.resetAt

\* the rateLimit record checkRateLimit stores, and what it returns
checkRateLimit(rl, t) ==
    LET old == IF windowOver(rl, t)
               THEN [count |-> 0, resetAt |-> t + RATE_WINDOW]
               ELSE CHOOSE r \in rl : TRUE
        new == [old EXCEPT !.count = old.count + 1]
    IN  [rateLimit |-> {new},
         allowed   |-> allowedAt(new.count),
         remaining |-> Max(0, RATE_LIMIT - new.count),
         resetIn   |-> Max(0, new.resetAt - t)]

-----------------------------------------------------------------------------
(* processChat.  A turn works on a context: the session state plus what   *)
(* the turn has done so far (bridge calls, completion calls, how it ended) *)

\* one POST /execute sent to the bridge, with its answer
Call(tool, args, r) == [tool |-> tool, args |-> args, reply |-> r]

Context ==
    [history |-> history, preferences |-> preferences, lastActive |-> lastActive,
     pendingAction |-> pendingAction, scheduleRegistry |-> scheduleRegistry,
     triggers |-> triggers, nextId |-> nextId,
     added |-> <<>>, calls |-> <<>>, llm |-> 0, raw |-> "", path |-> "none",
     status |-> 200, text |-> NoText, actions |-> <<>>, scheduled |-> {}]

\* history: [...this.state.history, ...entries].slice(-50)
appendHistory(C, entries) ==
    [C EXCEPT !.history = Slice50(C.history \o entries),
              !.added = C.added \o entries]

Pending(tool, args, context, originalRequest) ==
    [tool |-> tool, args |-> args, context |-> context,
     originalRequest |-> originalRequest]

\* lines 335-352: the stored action is sent to the bridge, then forgotten
Mut_confirmTurn_KeepOnFailure(C, p, m, r) ==
    [appendHistory(C, <<User(m), Assistant(IF r.success THEN "Sent!" ELSE "Failed.")>>)
        EXCEPT !.pendingAction = IF r.success THEN {} ELSE {p},
              !.lastActive = now,
              !.calls = Append(C.calls, Call(p.tool, p.args, r)),
              !.path = "confirm"]
Mut_confirmTurn_AsksModel(C, p, m, r) ==
    [appendHistory(C, <<User(m), Assistant(IF r.success THEN "Sent!" ELSE "Failed.")>>)
        EXCEPT !.pendingAction = {},
              !.lastActive = now,
              !.calls = Append(C.calls, Call(p.tool, p.args, r)),
              !.llm = C.llm + 1,
              !.path = "confirm"]
confirmTurn(C, p, m, r) ==
    [appendHistory(C, <<User(m), Assistant(IF r.success THEN "Sent!" ELSE "Failed.")>>)
        EXCEPT !.pendingAction = {},
              !.lastActive = now,
              !.calls = Append(C.calls, Call(p.tool, p.args, r)),
              !.path = "confirm"]

\* lines 354-362
Mut_cancelTurn_KeepsPending(C, m) ==
    [appendHistory(C, <<User(m), Assistant("Cancelled.")>>)
        EXCEPT !.lastActive = now,
              !.path = "cancel"]
cancelTurn(C, m) ==
    [appendHistory(C, <<User(m), Assistant("Cancelled.")>>)
        EXCEPT !.pendingAction = {},
              !.lastActive = now,
              !.path = "cancel"]

\* line 364: pending.args.message === '' && pending.tool === 'send_imessage'
needsMessage(p) == Get(p.args, "message") = "" /\ p.tool = "send_imessage"

\* lines 364-372: the reply becomes the missing message text
clarifyTurn(C, p, m) ==
    [appendHistory(C, <<User(m)>>)
        EXCEPT !.pendingAction = {[p EXCEPT !.args = Put(p.args, "message", m)]},
              !.lastActive = now,
              !.path = "clarify"]

\* line 374
Mut_dropPending_Keeps(C) == C
dropPending(C) == [C EXCEPT !.pendingAction = {}]

\* line 706: parseResponse stores the preference while it parses
storePreference(C, resp) ==
    IF parsePreference(resp) = {} THEN C
    ELSE LET b == CHOOSE b \in parsePreference(resp) : TRUE
         IN  [C EXCEPT !.preferences = Put(C.preferences, b.key, b.value)]

\* lines 457-477: this.schedule() makes the trigger, then the record is appended
scheduleAction(C, sch) ==
    LET when == parseWhen(sch.when, now)
        isRecurring == when.kind = "cron" /\ includesStar(when)
        payload == [tool |-> sch.tool, args |-> sch.args, description |-> sch.description]
        record == [id |-> C.nextId,
                   when |-> IF when.kind = "cron" THEN when.expr ELSE sch.when.text,
                   tool |-> sch.tool, args |-> sch.args,
                   description |-> sch.description, createdAt |-> now,
                   type |-> IF isRecurring THEN "recurring" ELSE "one-time"]
    IN  IF when = Thrown THEN [C EXCEPT !.path = "error", !.status = 500]
        ELSE [C EXCEPT !.triggers = C.triggers \cup
                      {[id |-> C.nextId, payload |-> payload, cron |-> when.kind = "cron"]},
                  !.nextId = C.nextId + 1,
                  !.scheduleRegistry = Append(C.scheduleRegistry, record)]

\* lines 387-390: scheduledTask is what the reply reports of the schedule
scheduleStep(C, resp) ==
    IF parseSchedule(resp) = {} THEN C
    ELSE LET sch == CHOOSE b \in parseSchedule(resp) : TRUE
             C1 == scheduleAction(C, sch)
         IN  IF C1.path = "error" THEN C1
             ELSE [C1 EXCEPT !.scheduled = {[id |-> C.nextId, when |-> sch.when.text,
                                             description |-> sch.description]}]

\* line 405, 406-409: a contact lookup that found a phone number
foundContact(action, r) ==
    /\ action.tool = "search_contacts"
    /\ r.success
    /\ Truthy(r.result)
    /\ ~mentionsError(r.result)
    /\ phoneOf(r.result) # ""

\* lines 411-426
intendedMessage(action, m) ==
    IF Truthy(Get(action.args, "message")) THEN Get(action.args, "message")
    ELSE saidText(m)

\* lines 428-432: a generated text becomes the pending message
generatedTurn(C, action, r, m, gen) ==
    IF ~gen.ok THEN [C EXCEPT !.llm = C.llm + 1, !.path = "error", !.status = 500]
    ELSE [C EXCEPT !.llm = C.llm + 1,
                   !.pendingAction = {Pending("send_imessage",
                        {<<"to", phoneOf(r.result)>>, <<"message", gen.text>>},
                        r.result, m)},
                   !.scheduled = {},
                   !.path = "generated"]

\* lines 434-443
pendingTurn(C, action, r, m) ==
    [appendHistory(C, <<User(m)>>)
        EXCEPT !.pendingAction = {Pending("send_imessage",
                    {<<"to", phoneOf(r.result)>>, <<"message", intendedMessage(action, m)>>},
                    r.result, m)},
              !.scheduled = {},
              !.path = "pendingCreated"]

\* lines 395-401: the entry pushed on actionResults for one tool call
Mut_actionResult_Succeeds(action, r) ==
    [tool |-> action.tool, args |-> action.args, result |-> Shown(r), success |-> TRUE]
actionResult(action, r) ==
    [tool |-> action.tool, args |-> action.args, result |-> Shown(r),
     success |-> r.success]

\* lines 393-446: the loop over the action directives, with its early returns
RECURSIVE runActions(_, _, _, _, _, _)
runActions(C, actions, i, replies, m, gen) ==
    IF i > Len(actions) THEN C
    ELSE LET action == actions[i]
             r == replies[i]
             C1 == [C EXCEPT !.calls = Append(C.calls, Call(action.tool, action.args, r)),
                             !.actions = Append(C.actions, actionResult(action, r))]
         IN  IF foundContact(action, r)
             THEN IF wantsGenerated(m)
                  THEN generatedTurn(C1, action, r, m, gen)
                  ELSE pendingTurn(C1, action, r, m)
             ELSE runActions(C1, actions, i + 1, replies, m, gen)

\* lines 448-452
finishTurn(C, m, resp) ==
    [appendHistory(C, <<User(m), Assistant(resp.raw)>>)
        EXCEPT !.lastActive = now,
              !.text = parseText(resp),
              !.path = "normal"]

\* lines 377-454: the turn once no pending action is left to answer
normalTurn(C, m, claudeOk, resp, replies, gen) ==
    IF ~claudeOk THEN [C EXCEPT !.llm = C.llm + 1, !.path = "error", !.status = 500]
    ELSE LET C1 == [C EXCEPT !.llm = C.llm + 1, !.raw = resp.raw]
             C2 == storePreference(C1, resp)
             C3 == scheduleStep(C2, resp)
             C4 == runActions(C3, parseActions(resp), 1, replies, m, gen)
         IN  IF C3.path = "error" THEN C3
             ELSE IF C4.path = "none" THEN finishTurn(C4, m, resp) ELSE C4

AllReplies == {resultOf(tool, end) : tool \in {"search_contacts", "notify"},
                                     end \in {"answered", "aborted", "failed"}}

\* the bridge replies the loop may get, one per action directive
RepliesFor(resp) ==
    LET actions == parseActions(resp)
    IN  {f \in [1..Len(actions) -> AllReplies] :
            \A i \in 1..Len(actions) : f[i] \in callBridge(actions[i].tool, actions[i].args)}

Generated == {[ok |-> TRUE, text |-> "See you soon!"], [ok |-> FALSE, text |-> ""]}

\* lines 325-455: every context a turn on message m may end in, when the
\* completion service answers with one of the texts of completions
processChatIn(C, m, completions) ==
    LET answered ==
            IF C.pendingAction = {} THEN {}
            ELSE LET p == CHOOSE p \in C.pendingAction : TRUE
                 IN  IF isConfirmation(m)
                     THEN {confirmTurn(C, p, m, r) : r \in callBridge(p.tool, p.args)}
                     ELSE IF isCancellation(m) THEN {cancelTurn(C, m)}
                     ELSE IF needsMessage(p) THEN {clarifyTurn(C, p, m)}
                     ELSE {}
        C0 == dropPending(C)
    IN  IF answered # {} THEN answered
        ELSE UNION { UNION { { normalTurn(C0, m, claudeOk, resp, replies, gen)
                               : replies \in RepliesFor(resp) }
                             : gen \in Generated }
                     : claudeOk \in BOOLEAN, resp \in completions }

processChat(C, m) == processChatIn(C, m, Responses)

-----------------------------------------------------------------------------
(* The session at start: a new one (initialState), or one resumed from its  *)
(* durable state after 24 chat turns (a contact lookup that the bridge let  *)
(* time out) and 35 reads of /state, all at time 0: they leave 48 history   *)
(* entries and a rate-limit window with one request left.                   *)

WarmTurns == (HISTORY_CAP - 2) \div 2

WarmHistory ==
    [i \in 1..(2 * WarmTurns) |->
        IF i % 2 = 1 THEN User("text John saying hi") ELSE Assistant("r_search")]

NoReply == [op |-> "none", msg |-> "", id |-> 0, status |-> 0, path |-> "none",
            calls |-> <<>>, llm |-> 0, raw |-> "", rate |-> {}, pending |-> {},
            body |-> <<>>, text |-> NoText, event |-> "", sent |-> {}, failed |-> {},
            token |-> "", actions |-> <<>>, scheduled |-> {}]

Started ==
    /\ \/ history = <<>> /\ rateLimit = {}
       \/ /\ history = WarmHistory
          /\ rateLimit = {[count |-> RATE_LIMIT - 1, resetAt |-> RATE_WINDOW]}
    /\ log = history
    /\ preferences = {}
    /\ lastActive = 0
    /\ pendingAction = {}
    /\ scheduleRegistry = <<>>
    /\ triggers = {}
    /\ nextId = 1
    /\ now = 0
    /\ steps = 0
    /\ out = NoReply
    /\ connections = {}
    /\ tasks = {}
    /\ arg = NoWhen
    /\ ret = NotEvaluated

\* the session starts with the bridge in reach
Init == Started /\ reachable = TRUE

-----------------------------------------------------------------------------
(* Handlers *)

Reply(op, msg, id, status, C, rate) ==
    [op |-> op, msg |-> msg, id |-> id, status |-> status, path |-> C.path,
     calls |-> C.calls, llm |-> C.llm, raw |-> C.raw, rate |-> rate,
     pending |-> pendingAction, body |-> <<>>, text |-> C.text,
     event |-> "", sent |-> {}, failed |-> {}, token |-> "",
     actions |-> C.actions, scheduled |-> C.scheduled]

\* what checkRateLimit returned, with the record it stored
Rate(rl) == {[allowed |-> rl.allowed, remaining |-> rl.remaining, resetIn |-> rl.resetIn,
              count |-> (CHOOSE r \in rl.rateLimit : TRUE).count,
              resetAt |-> (CHOOSE r \in rl.rateLimit : TRUE).resetAt]}

\* this.setState of everything a turn's context holds
Store(C) ==
    /\ history' = C.history
    /\ preferences' = C.preferences
    /\ lastActive' = C.lastActive
    /\ pendingAction' = C.pendingAction
    /\ scheduleRegistry' = C.scheduleRegistry
    /\ triggers' = C.triggers
    /\ nextId' = C.nextId
    /\ log' = log \o C.added

\* lines 218-225: the 429 reply
Throttled(op, msg, id, rl) ==
    /\ ~rl.allowed
    /\ rateLimit' = rl.rateLimit
    /\ out' = Reply(op, msg, id, 429, Context, Rate(rl))
    /\ UNCHANGED <<history, preferences, lastActive, pendingAction,
                   scheduleRegistry, triggers, nextId, log>>

\* GET / and GET /health: answered before the rate limiter
Health ==
    /\ steps < MaxSteps
    /\ steps' = steps + 1
    /\ UNCHANGED <<reachable, connections, arg, ret, tasks>>
    /\ out' = Reply("GET /health", "", 0, 200, Context, {})
    /\ UNCHANGED <<history, preferences, lastActive, pendingAction, rateLimit,
                   scheduleRegistry, triggers, nextId, now, log>>

\* POST /chat: onRequest, handleChat, processChat
ChatHTTPIn(m, completions) ==
    /\ steps < MaxSteps
    /\ steps' = steps + 1
    /\ UNCHANGED <<reachable, connections, arg, ret, tasks>>
    /\ UNCHANGED now
    /\ LET rl == checkRateLimit(rateLimit, now)
       IN  \/ Throttled("POST /chat", m, 0, rl)
           \/ /\ rl.allowed
              /\ rateLimit' = rl.rateLimit
              /\ \E C \in processChatIn(Context, m, completions) :
                    /\ Store(C)
                    /\ out' = Reply("POST /chat", m, 0, C.status, C, Rate(rl))

ChatHTTP(m) == ChatHTTPIn(m, Responses)

\* a {type: "chat"} message on the WebSocket: onMessage, processChat.  The
\* status tells what was sent back: 200 a chat event, 401 the "Invalid token"
\* notification, 0 nothing (line 149 swallows what processChat raised).
ChatWSIn(m, tokenOk, completions) ==
    /\ steps < MaxSteps
    /\ steps' = steps + 1
    /\ UNCHANGED <<reachable, connections, arg, ret, tasks>>
    /\ UNCHANGED <<now, rateLimit>>
    /\ \/ /\ ~tokenOk
          /\ out' = Reply("WS chat", m, 0, 401, Context, {})
          /\ UNCHANGED <<history, preferences, lastActive, pendingAction,
                         scheduleRegistry, triggers, nextId, log>>
       \/ /\ tokenOk
          /\ \E C \in processChatIn(Context, m, completions) :
                /\ Store(C)
                /\ out' = Reply("WS chat", m, 0, IF C.path = "error" THEN 0 ELSE 200, C, {})

ChatWS(m, tokenOk) == ChatWSIn(m, tokenOk, Responses)

ExecuteBodies == {[tool |-> "send_imessage", args |-> JohnHi]}

\* POST /execute: onRequest, handleExecute
Execute(body) ==
    /\ steps < MaxSteps
    /\ steps' = steps + 1
    /\ UNCHANGED <<reachable, connections, arg, ret, tasks>>
    /\ UNCHANGED now
    /\ LET rl == checkRateLimit(rateLimit, now)
       IN  \/ Throttled("POST /execute", body.tool, 0, rl)
           \/ /\ rl.allowed
              /\ rateLimit' = rl.rateLimit
              /\ \E r \in callBridge(body.tool, body.args) :
                    out' = Reply("POST /execute", body.tool, 0, 200,
                                 [Context EXCEPT !.calls = <<Call(body.tool, body.args, r)>>],
                                 Rate(rl))
              /\ UNCHANGED <<history, preferences, lastActive, pendingAction,
                             scheduleRegistry, triggers, nextId, log>>

\* line 234: { ...this.initialState, preferences: prefs, lastActive: Date.now() }
Mut_resetState_Fresh(prefs, t) ==
    [history |-> <<>>, preferences |-> {}, lastActive |-> t, pendingAction |-> {},
     rateLimit |-> {}, scheduleRegistry |-> <<>>]
resetState(prefs, t) ==
    [history |-> <<>>, preferences |-> prefs, lastActive |-> t, pendingAction |-> {},
     rateLimit |-> {}, scheduleRegistry |-> <<>>]

\* POST /reset: setState({...initialState, preferences, lastActive})
Reset ==
    /\ steps < MaxSteps
    /\ steps' = steps + 1
    /\ UNCHANGED <<reachable, connections, arg, ret, tasks>>
    /\ UNCHANGED now
    /\ LET rl == checkRateLimit(rateLimit, now)
       IN  \/ Throttled("POST /reset", "", 0, rl)
           \/ /\ rl.allowed
              /\ LET state == resetState(preferences, now)
                 IN  /\ history' = state.history
                     /\ preferences' = state.preferences
                     /\ lastActive' = state.lastActive
                     /\ pendingAction' = state.pendingAction
                     /\ rateLimit' = state.rateLimit
                     /\ scheduleRegistry' = state.scheduleRegistry
              /\ log' = <<>>
              /\ out' = Reply("POST /reset", "", 0, 200, Context, Rate(rl))
              /\ UNCHANGED <<triggers, nextId>>

\* POST /clear: setState({...state, history: []})
Clear ==
    /\ steps < MaxSteps
    /\ steps' = steps + 1
    /\ UNCHANGED <<reachable, connections, arg, ret, tasks>>
    /\ UNCHANGED now
    /\ LET rl == checkRateLimit(rateLimit, now)
       IN  \/ Throttled("POST /clear", "", 0, rl)
           \/ /\ rl.allowed
              /\ rateLimit' = rl.rateLimit
              /\ history' = <<>>
              /\ log' = <<>>
              /\ out' = Reply("POST /clear", "", 0, 200, Context, Rate(rl))
              /\ UNCHANGED <<preferences, lastActive, pendingAction,
                             scheduleRegistry, triggers, nextId>>

ReadRoutes == {"GET /state"}

\* GET /state, GET /history and the 404 fall-through: routes that only read
Read(route) ==
    /\ steps < MaxSteps
    /\ steps' = steps + 1
    /\ UNCHANGED <<reachable, connections, arg, ret, tasks>>
    /\ UNCHANGED now
    /\ LET rl == checkRateLimit(rateLimit, now)
       IN  \/ Throttled(route, "", 0, rl)
           \/ /\ rl.allowed
              /\ rateLimit' = rl.rateLimit
              /\ out' = Reply(route, "", 0, IF route = "GET /nowhere" THEN 404 ELSE 200,
                              Context, Rate(rl))
              /\ UNCHANGED <<history, preferences, lastActive, pendingAction,
                             scheduleRegistry, triggers, nextId, log>>

\* lines 256-263: the listing GET /schedules answers with
listSchedules(registry) ==
    [i \in 1..Len(registry) |->
        [id |-> registry[i].id,
         time |-> registry[i].when,
         payload |-> [tool |-> registry[i].tool, args |-> registry[i].args,
                      description |-> registry[i].description],
         type |-> registry[i].type,
         createdAt |-> registry[i].createdAt]]

\* GET /schedules
ListSchedules ==
    /\ steps < MaxSteps
    /\ steps' = steps + 1
    /\ UNCHANGED <<reachable, connections, arg, ret, tasks>>
    /\ UNCHANGED now
    /\ LET rl == checkRateLimit(rateLimit, now)
       IN  \/ Throttled("GET /schedules", "", 0, rl)
           \/ /\ rl.allowed
              /\ rateLimit' = rl.rateLimit
              /\ out' = [Reply("GET /schedules", "", 0, 200, Context, Rate(rl))
                            EXCEPT !.body = listSchedules(scheduleRegistry)]
              /\ UNCHANGED <<history, preferences, lastActive, pendingAction,
                             scheduleRegistry, triggers, nextId, log>>

\* line 271: this.cancelSchedule(id) takes the trigger out of the platform's table
Mut_cancelSchedule_Forgets(table, id) == table
Mut_cancelSchedule_All(table, id) == {}
cancelSchedule(table, id) == {t \in table : t.id # id}

\* the registry holds a record with this id
inRegistry(registry, id) == \E i \in 1..Len(registry) : registry[i].id = id

\* DELETE /schedules/:id: cancelSchedule, then the record is filtered out;
\* the reply's path tells whether a record was there to remove
DeleteSchedule(id) ==
    /\ steps < MaxSteps
    /\ steps' = steps + 1
    /\ UNCHANGED <<reachable, connections, arg, ret, tasks>>
    /\ UNCHANGED now
    /\ LET rl == checkRateLimit(rateLimit, now)
       IN  \/ Throttled("DELETE /schedules", "", id, rl)
           \/ /\ rl.allowed
              /\ rateLimit' = rl.rateLimit
              /\ triggers' = cancelSchedule(triggers, id)
              /\ scheduleRegistry' = SelectSeq(scheduleRegistry, LAMBDA s : s.id # id)
              /\ out' = [Reply("DELETE /schedules", "", id, 200, Context, Rate(rl))
                            EXCEPT !.path = IF inRegistry(scheduleRegistry, id)
                                            THEN "removed" ELSE "unknown"]
              /\ UNCHANGED <<history, preferences, lastActive, pendingAction,
                             nextId, log>>

\* lines 164-173: the event is sent to every connection; one whose send
\* throws is deleted from the map and the loop goes on
Mut_broadcastToClients_GivesUp(conns, throwing) ==
    [sent |-> IF throwing = {} THEN conns ELSE {}, connections |-> conns \ throwing]
broadcastToClients(conns, throwing) ==
    [sent |-> conns \ throwing, connections |-> conns \ throwing]

\* registry.find(s => s.tool === payload.tool && s.description === payload.description)
findRecord(registry, payload) ==
    LET hits == SelectSeq(registry, LAMBDA s : s.tool = payload.tool
                                            /\ s.description = payload.description)
    IN  IF hits = <<>> THEN {} ELSE {hits[1]}

\* lines 487-495: the registry after a firing
registryAfterFire(registry, payload) ==
    LET found == findRecord(registry, payload)
    IN  IF found # {} /\ (CHOOSE s \in found : TRUE).type = "one-time"
        THEN SelectSeq(registry, LAMBDA s : s.id # (CHOOSE f \in found : TRUE).id)
        ELSE registry

\* a trigger of the platform fires: executeScheduledAction(payload)
\* lines 482-508: what executeScheduledAction does once callBridge has
\* returned r, the sends to the connections of throwing raising
Fired(t, r, throwing) ==
    /\ LET entry == Assistant("[Scheduled: " \o t.payload.description \o "]\n"
                              \o Shown(r))
           C == appendHistory(Context, <<entry>>)
           cast == broadcastToClients(connections, throwing)
       IN  /\ history' = C.history
           /\ log' = log \o C.added
           /\ connections' = cast.connections
           /\ out' = [Reply("fire", t.payload.tool, t.id, 0,
                            [C EXCEPT !.calls = <<Call(t.payload.tool, t.payload.args, r)>>,
                                      !.path = "scheduled"], {})
                         EXCEPT !.event = "scheduled_result",
                                !.sent = cast.sent,
                                !.failed = throwing]
    /\ scheduleRegistry' = registryAfterFire(scheduleRegistry, t.payload)
    /\ triggers' = IF t.cron THEN triggers ELSE triggers \ {t}
    /\ UNCHANGED <<preferences, lastActive, pendingAction, rateLimit, nextId, now>>

Fire(t) ==
    /\ steps < MaxSteps
    /\ steps' = steps + 1
    /\ UNCHANGED <<reachable, arg, ret, tasks>>
    /\ t \in triggers
    /\ \E r \in callBridge(t.payload.tool, t.payload.args), throwing \in SUBSET connections :
          Fired(t, r, throwing)

\* time passes before the next request
Tick ==
    /\ steps < MaxSteps
    /\ now < MaxNow
    /\ now' = now + TickMs
    /\ UNCHANGED <<history, preferences, lastActive, pendingAction, rateLimit,
                   scheduleRegistry, triggers, nextId, steps, log, out, reachable,
                   connections, arg, ret, tasks>>

Next ==
    \/ Health
    \/ \E m \in Messages : ChatHTTP(m)
    \/ \E m \in WsMessages, tokenOk \in BOOLEAN : ChatWS(m, tokenOk)
    \/ \E body \in ExecuteBodies : Execute(body)
    \/ Reset
    \/ Clear
    \/ \E route \in ReadRoutes : Read(route)
    \/ \E id \in 0..(nextId - 1) : DeleteSchedule(id)
    \/ \E t \in triggers : Fire(t)
    \/ Tick

Spec == Init /\ [][Next]_vars

-----------------------------------------------------------------------------
(* The schedules of a session: the completion service answers with schedule *)
(* directives of each kind of `when`, and the client lists and deletes.     *)

ScheduleMessages == {"remind me"}

Tea == {<<"message", "tea">>}

ScheduleCompletions == {
    Response("s_once", <<ScheduleBlock(InFiveMinutes, "notify", Tea, "Tea")>>),
    Response("s_daily", <<ScheduleBlock(DailyCron, "notify", Tea, "Daily tea")>>),
    Response("s_digits", <<ScheduleBlock(DigitsCron, "notify", Tea, "New year tea")>>) }

NextSchedules ==
    \/ \E m \in ScheduleMessages : ChatHTTPIn(m, ScheduleCompletions)
    \/ ListSchedules
    \/ \E id \in 0..(nextId - 1) : DeleteSchedule(id)
    \/ \E t \in triggers : Fire(t)
    \/ Tick

SpecSchedules == Init /\ [][NextSchedules]_vars

-----------------------------------------------------------------------------
(* The directives of a completion text: the service answers with prose and  *)
(* blocks of which some are malformed.                                      *)

DirectiveMessages == {"tea please"}

Notify == ActionBlock("notify", Tea)

DirectiveCompletions == {
    Completion("d_action", "Making tea.", <<BadBlock("action"), Notify>>),
    Completion("d_schedule", "Making tea.", <<BadBlock("schedule"), Notify>>),
    Completion("d_preference", "Making tea.", <<BadBlock("preference"), Notify>>),
    Completion("d_nowhen", "Making tea.",
               <<ScheduleBlock(NoWhenField, "notify", Tea, "Tea"), Notify>>),
    Completion("d_good", "Making tea.",
               <<PreferenceBlock("drink", "tea"),
                 ScheduleBlock(InFiveMinutes, "notify", Tea, "Tea"), Notify>>) }

NextDirectives ==
    \/ \E m \in DirectiveMessages : ChatHTTPIn(m, DirectiveCompletions)
    \/ \E m \in DirectiveMessages, tokenOk \in BOOLEAN :
            ChatWSIn(m, tokenOk, DirectiveCompletions)
    \/ Clear

SpecDirectives == Init /\ [][NextDirectives]_vars

-----------------------------------------------------------------------------
(* The calls to the execution agent: every way the session invokes a tool   *)
(* (an action directive, a confirmed pending action, a firing, POST         *)
(* /execute), with a bridge that may be out of reach.                       *)

BridgeMessages == {"text John saying hi", "Yes!"}

BridgeCompletions == {
    Response("r_search", <<ActionBlock("search_contacts", {<<"query", "John">>})>>),
    Completion("b_twice", "Making tea.",
               <<ScheduleBlock(InFiveMinutes, "notify", Tea, "Tea"), Notify, Notify>>) }

InitBridge == Started /\ reachable \in BOOLEAN

\* the bridge, or the tunnel to it, goes down or comes back
Reach ==
    /\ reachable' = ~reachable
    /\ UNCHANGED <<history, preferences, lastActive, pendingAction, rateLimit,
                   scheduleRegistry, triggers, nextId, now, steps, log, out,
                   connections, arg, ret, tasks>>

NextBridge ==
    \/ \E m \in BridgeMessages : ChatHTTPIn(m, BridgeCompletions)
    \/ \E body \in ExecuteBodies : Execute(body)
    \/ \E t \in triggers : Fire(t)
    \/ Reach

SpecBridge == InitBridge /\ [][NextBridge]_vars

-----------------------------------------------------------------------------
(* Real-time fan-out: clients open and close WebSockets while schedules are *)
(* made and fire.                                                           *)

MaxConnections == 2

ConnectionIds == 1..MaxConnections

\* onConnect: the connection is put in the map and greeted; a greeting whose
\* send throws takes it out again
Connect(id, sendThrows) ==
    /\ id \notin connections
    /\ connections' = IF sendThrows THEN connections ELSE connections \cup {id}
    /\ out' = [NoReply EXCEPT !.op = "connect", !.id = id, !.event = "notification",
                              !.sent = IF sendThrows THEN {} ELSE {id},
                              !.failed = IF sendThrows THEN {id} ELSE {}]
    /\ UNCHANGED <<history, preferences, lastActive, pendingAction, rateLimit,
                   scheduleRegistry, triggers, nextId, now, steps, log, reachable,
                   arg, ret, tasks>>

\* onClose
Close(id) ==
    /\ id \in connections
    /\ connections' = connections \ {id}
    /\ out' = [NoReply EXCEPT !.op = "close", !.id = id]
    /\ UNCHANGED <<history, preferences, lastActive, pendingAction, rateLimit,
                   scheduleRegistry, triggers, nextId, now, steps, log, reachable,
                   arg, ret, tasks>>

FanOutCompletions == {
    Response("s_once", <<ScheduleBlock(InFiveMinutes, "notify", Tea, "Tea")>>),
    Response("s_daily", <<ScheduleBlock(DailyCron, "notify", Tea, "Daily tea")>>) }

NextFanOut ==
    \/ \E id \in ConnectionIds, sendThrows \in BOOLEAN : Connect(id, sendThrows)
    \/ \E id \in ConnectionIds : Close(id)
    \/ \E m \in ScheduleMessages : ChatHTTPIn(m, FanOutCompletions)
    \/ \E t \in triggers : Fire(t)

SpecFanOut == Init /\ [][NextFanOut]_vars

-----------------------------------------------------------------------------
(* The real-time channel: clients send chat messages and pings on their     *)
(* WebSockets, with a token that is right, wrong or missing.                *)

API_SECRET == "secret"

\* data.token of a message: the secret, another string, or none ("")
Tokens == {API_SECRET, "guess", ""}

\* lines 85-92: equal lengths and no differing character
timingSafeEqual(a, b) == Len(a) = Len(b) /\ a = b

\* lines 156-162: one event for one connection; a send that throws deletes it
sendToConnection(conns, id, sendThrows) ==
    [sent |-> IF sendThrows THEN {} ELSE {id},
     failed |-> IF sendThrows THEN {id} ELSE {},
     connections |-> IF sendThrows THEN conns \ {id} ELSE conns]

ChannelMessages == {"tea please"}

ChannelCompletions == {
    Completion("d_nowhen", "Making tea.",
               <<ScheduleBlock(NoWhenField, "notify", Tea, "Tea"), Notify>>),
    Completion("d_good", "Making tea.",
               <<PreferenceBlock("drink", "tea"),
                 ScheduleBlock(InFiveMinutes, "notify", Tea, "Tea"), Notify>>) }

\* onMessage for {type: "chat", token, message} on connection id
OnMessage(id, token, m, completions, sendThrows) ==
    /\ steps < MaxSteps
    /\ steps' = steps + 1
    /\ id \in connections
    /\ UNCHANGED <<reachable, arg, ret, tasks, now, rateLimit>>
    /\ LET cast == sendToConnection(connections, id, sendThrows)
           told(o, event) == [o EXCEPT !.token = token, !.event = event,
                                       !.sent = cast.sent, !.failed = cast.failed]
       IN  \/ /\ ~(Truthy(token) /\ Truthy(m))
              /\ ~sendThrows
              /\ out' = [Reply("WS chat", m, id, 0, Context, {}) EXCEPT !.token = token]
              /\ UNCHANGED <<history, preferences, lastActive, pendingAction,
                             scheduleRegistry, triggers, nextId, log, connections>>
           \/ /\ Truthy(token) /\ Truthy(m)
              /\ ~timingSafeEqual(token, API_SECRET)
              /\ out' = told(Reply("WS chat", m, id, 401, Context, {}), "notification")
              /\ connections' = cast.connections
              /\ UNCHANGED <<history, preferences, lastActive, pendingAction,
                             scheduleRegistry, triggers, nextId, log>>
           \/ /\ Truthy(token) /\ Truthy(m)
              /\ timingSafeEqual(token, API_SECRET)
              /\ \E C \in processChatIn(Context, m, completions) :
                    /\ Store(C)
                    /\ IF C.path = "error"
                       THEN /\ ~sendThrows
                            /\ out' = [Reply("WS chat", m, id, 0, C, {})
                                           EXCEPT !.token = token]
                            /\ UNCHANGED connections
                       ELSE /\ out' = told(Reply("WS chat", m, id, 200, C, {}), "chat")
                            /\ connections' = cast.connections

\* onMessage for {type: "ping"} on connection id
Ping(id, sendThrows) ==
    /\ steps < MaxSteps
    /\ steps' = steps + 1
    /\ id \in connections
    /\ LET cast == sendToConnection(connections, id, sendThrows)
       IN  /\ out' = [NoReply EXCEPT !.op = "WS ping", !.id = id, !.event = "ping",
                                     !.sent = cast.sent, !.failed = cast.failed]
           /\ connections' = cast.connections
    /\ UNCHANGED <<history, preferences, lastActive, pendingAction, rateLimit,
                   scheduleRegistry, triggers, nextId, now, log, reachable, arg, ret, tasks>>

NextChannel ==
    \/ \E id \in ConnectionIds, sendThrows \in BOOLEAN : Connect(id, sendThrows)
    \/ \E id \in ConnectionIds : Close(id)
    \/ \E id \in ConnectionIds, token \in Tokens, m \in ChannelMessages,
          sendThrows \in BOOLEAN : OnMessage(id, token, m, ChannelCompletions, sendThrows)
    \/ \E id \in ConnectionIds, sendThrows \in BOOLEAN : Ping(id, sendThrows)

SpecChannel == Init /\ [][NextChannel]_vars

-----------------------------------------------------------------------------
(* Handlers in flight.  A handler is an async function: at an await of an   *)
(* outbound fetch it is suspended, and the actor takes the next request or  *)
(* alarm; nothing in the class holds later handlers back.  A chat turn is   *)
(* split at its first await (callBridge of a confirmation, or fetchTools    *)
(* and callClaude), a firing at its callBridge; the awaits of the action    *)
(* loop are not split.                                                      *)

Task(n, kind, via, msg, pending, trigger) ==
    [n |-> n, kind |-> kind, via |-> via, msg |-> msg, pending |-> pending,
     trigger |-> trigger]

Transports == {"POST /chat", "WS chat"}

\* the reply of a handler that is suspended: nothing has been answered yet
Suspended(op, m, id, rate) ==
    Reply(op, m, id, 0, [Context EXCEPT !.path = "suspended"], rate)

\* processChat from its entry to its first await
ChatBegin(m, via) ==
    /\ steps < MaxSteps
    /\ steps' = steps + 1
    /\ UNCHANGED <<reachable, connections, arg, ret, now>>
    /\ LET rl == checkRateLimit(rateLimit, now)
           limited == via = "POST /chat"
           rate == IF limited THEN Rate(rl) ELSE {}
           answers == IF pendingAction = {} THEN {}
                      ELSE processChatIn(Context, m, {})
       IN  \/ /\ limited
              /\ Throttled(via, m, 0, rl)
              /\ UNCHANGED tasks
           \/ /\ limited => rl.allowed
              /\ rateLimit' = IF limited THEN rl.rateLimit ELSE rateLimit
              /\ IF pendingAction # {} /\ isConfirmation(m)
                 THEN /\ tasks' = tasks \cup
                                {Task(steps, "confirm", via, m, pendingAction, {})}
                      /\ out' = Suspended(via, m, 0, rate)
                      /\ UNCHANGED <<history, preferences, lastActive, pendingAction,
                                     scheduleRegistry, triggers, nextId, log>>
                 ELSE IF answers # {}
                 THEN /\ \E C \in answers :
                            /\ Store(C)
                            /\ out' = Reply(via, m, 0, 200, C, rate)
                      /\ UNCHANGED tasks
                 ELSE /\ Store(dropPending(Context))
                      /\ tasks' = tasks \cup {Task(steps, "claude", via, m, {}, {})}
                      /\ out' = Suspended(via, m, 0, rate)

\* the awaited call of a suspended chat turn returns, and the turn runs on
ChatResume(task, completions) ==
    /\ task \in tasks
    /\ task.kind \in {"confirm", "claude"}
    /\ tasks' = tasks \ {task}
    /\ UNCHANGED <<reachable, connections, arg, ret, now, steps, rateLimit>>
    /\ \E C \in IF task.kind = "confirm"
                 THEN LET p == CHOOSE p \in task.pending : TRUE
                      IN  {confirmTurn(Context, p, task.msg, r) :
                                r \in callBridge(p.tool, p.args)}
                 ELSE UNION { UNION { { normalTurn(Context, task.msg, claudeOk, resp,
                                                   replies, gen)
                                        : replies \in RepliesFor(resp) }
                                      : gen \in Generated }
                              : claudeOk \in BOOLEAN, resp \in completions } :
          /\ Store(C)
          /\ out' = [Reply(task.via, task.msg, 0,
                           IF C.path # "error" THEN 200
                           ELSE IF task.via = "WS chat" THEN 0 ELSE 500, C, {})
                        EXCEPT !.pending = task.pending]

\* an alarm runs executeScheduledAction up to its await of callBridge
FireBegin(t) ==
    /\ steps < MaxSteps
    /\ steps' = steps + 1
    /\ t \in triggers
    /\ \A task \in tasks : t \notin task.trigger
    /\ tasks' = tasks \cup {Task(steps, "fire", "alarm", "", {}, {t})}
    /\ out' = Suspended("fire", t.payload.tool, t.id, {})
    /\ UNCHANGED <<history, preferences, lastActive, pendingAction, rateLimit,
                   scheduleRegistry, triggers, nextId, now, log, reachable,
                   connections, arg, ret>>

\* callBridge returns to a suspended firing
FireEnd(task) ==
    /\ task \in tasks
    /\ task.kind = "fire"
    /\ tasks' = tasks \ {task}
    /\ UNCHANGED <<reachable, arg, ret, steps>>
    /\ LET t == CHOOSE t \in task.trigger : TRUE
       IN  \E r \in callBridge(t.payload.tool, t.payload.args),
              throwing \in SUBSET connections : Fired(t, r, throwing)

NextAwait ==
    \/ \E m \in BridgeMessages, via \in Transports : ChatBegin(m, via)
    \/ \E task \in tasks : ChatResume(task, BridgeCompletions)
    \/ \E t \in triggers : FireBegin(t)
    \/ \E task \in tasks : FireEnd(task)

SpecAwait == Init /\ [][NextAwait]_vars

-----------------------------------------------------------------------------
(* The action loop: completion texts with several action directives for     *)
(* different tools, and a schedule directive beside them.                   *)

ActionMessages == {"battery?"}

Battery == ActionBlock("battery_status", {})

ActionCompletions == {
    Completion("a_battery", "Checking.", <<Battery>>),
    Completion("a_both", "Checking.",
               <<ScheduleBlock(InFiveMinutes, "notify", Tea, "Tea"), Battery, Notify>>) }

NextActions ==
    \/ \E m \in ActionMessages : ChatHTTPIn(m, ActionCompletions)
    \/ \E m \in ActionMessages, tokenOk \in BOOLEAN :
            ChatWSIn(m, tokenOk, ActionCompletions)
    \/ \E t \in triggers : Fire(t)

SpecActions == Init /\ [][NextActions]_vars

-----------------------------------------------------------------------------
(* parseWhen on its own: a text and a time of the call are drawn, and the   *)
(* function is evaluated once.                                               *)

MaxN == 3
MaxHour == 24

Units == {"second", "minute", "hour", "day"}
Minutes == {{}, {0}, {5}, {30}, {75}}
Periods == {"", "am", "pm"}

WhenTexts ==
    {RelativeText(n, unit) : n \in 0..MaxN, unit \in Units}
    \cup {DailyText(h, m, p) : h \in 0..MaxHour, m \in Minutes, p \in Periods}
    \cup {WeekdayText(h, {}, p) : h \in {9, 12}, p \in Periods}
    \cup {CronText(<<"0", "17", "*", "*", "*">>), DigitsCron,
          PlainText("hourly", "every hour"), PlainText("morning", "every morning"),
          PlainText("evening", "every evening"),
          When("everyHours", "every 2 hours", <<>>, 2, "", 0, {}, ""),
          When("date", "1970-01-01T00:01:00Z", <<>>, 60000, "", 0, {}, ""),
          When("date", "1970-01-01T00:00:00Z", <<>>, 0, "", 0, {}, ""),
          PlainText("none", "soon"), PlainText("none", "")}

WhenTimes == {0, 1, RATE_WINDOW}

InitWhen ==
    /\ history = <<>> /\ log = <<>> /\ rateLimit = {}
    /\ preferences = {}
    /\ lastActive = 0
    /\ pendingAction = {}
    /\ scheduleRegistry = <<>>
    /\ triggers = {}
    /\ nextId = 1
    /\ steps = 0
    /\ out = NoReply
    /\ reachable = TRUE
    /\ connections = {}
    /\ tasks = {}
    /\ now \in WhenTimes
    /\ arg \in WhenTexts
    /\ ret = NotEvaluated

\* this.parseWhen(arg)
EvalParseWhen ==
    /\ ret = NotEvaluated
    /\ ret' = parseWhen(arg, now)
    /\ UNCHANGED <<history, preferences, lastActive, pendingAction, rateLimit,
                   scheduleRegistry, triggers, nextId, now, steps, log, out,
                   reachable, connections, arg, tasks>>

NextWhen == EvalParseWhen

SpecWhen == InitWhen /\ [][NextWhen]_vars

-----------------------------------------------------------------------------
(* Properties *)

Last(seq) == seq[Len(seq)]

IsChat(o) == o.op \in {"POST /chat", "WS chat"}

\* the reply o is that of a chat turn that reached processChat
Processed(o) == IsChat(o) /\ o.path # "none"

\* a handler ran in this step (Tick leaves out as it is)
Handled == steps' # steps

\* C1: history never holds more than 50 entries, and it is always the 50 most
\* recent of the entries appended since it was last emptied, in insertion order.
C1_HistoryCapped ==
    /\ Len(history) <= HISTORY_CAP
    /\ history = SliceLast(log, HISTORY_CAP)

\* an append overflowed and the oldest entries were evicted
C1_Evicted == Len(log) > HISTORY_CAP /\ Len(history) = HISTORY_CAP

\* C2: the bridge is asked to run send_imessage only by a turn that confirms a
\* stored pending action with a message of the confirmation grammar.
C2_SendOnlyWhenConfirmed ==
    \A i \in 1..Len(out.calls) :
        out.calls[i].tool = "send_imessage" =>
            /\ out.path = "confirm"
            /\ out.pending # {}
            /\ isConfirmation(out.msg)

\* C3: there is at most one pending action, and a turn that answers a pending
\* action with a confirmation or a cancellation ends with none, whatever the
\* bridge replied.
C3_AnsweredPendingIsCleared ==
    /\ Cardinality(pendingAction) <= 1
    /\ (Processed(out) /\ out.pending # {}
            /\ (isConfirmation(out.msg) \/ isCancellation(out.msg)))
        => pendingAction = {}

\* a confirmed action whose bridge call failed
C3_ConfirmFailed ==
    /\ Processed(out) /\ out.pending # {} /\ isConfirmation(out.msg)
    /\ Len(out.calls) = 1 /\ ~out.calls[1].reply.success
    /\ pendingAction = {}

\* C4: a confirmation of a pending action sends the stored tool with the stored
\* args to the bridge exactly once, asks the completion service nothing, and
\* appends the user message and the outcome to history.
C4_ConfirmExecutesStored ==
    [][(Handled /\ Processed(out') /\ pendingAction # {} /\ isConfirmation(out'.msg)) =>
        LET p == CHOOSE p \in pendingAction : TRUE
        IN  /\ Len(out'.calls) = 1
            /\ out'.calls[1].tool = p.tool
            /\ out'.calls[1].args = p.args
            /\ out'.llm = 0
            /\ history' = SliceLast(history \o
                    <<User(out'.msg),
                      Assistant(IF out'.calls[1].reply.success THEN "Sent!" ELSE "Failed.")>>,
                    HISTORY_CAP)]_vars

\* a confirmed action carrying a text the user gave as clarification
C4_ConfirmedClarified ==
    /\ Processed(out) /\ out.path = "confirm"
    /\ Len(out.calls) = 1
    /\ Get(out.calls[1].args, "message") \in Messages

\* C5: a cancellation of a pending action discards it with no bridge call and
\* no completion call; with no pending action left, a later confirmation
\* message executes nothing stored: it is an ordinary turn for the completion
\* service.
C5_CancelDiscards ==
    /\ (Processed(out) /\ out.pending # {} /\ isCancellation(out.msg)) =>
            /\ pendingAction = {}
            /\ out.calls = <<>>
            /\ out.llm = 0
    /\ (Processed(out) /\ out.pending = {} /\ isConfirmation(out.msg)) =>
            /\ out.path # "confirm"
            /\ out.llm >= 1

\* a pending action was cancelled
C5_Cancelled ==
    /\ Processed(out) /\ out.pending # {} /\ isCancellation(out.msg)
    /\ Last(history) = Assistant("Cancelled.")


\* the message of reply o matches neither grammar
Neither(o) == ~isConfirmation(o.msg) /\ ~isCancellation(o.msg)

\* C6: a message of neither grammar, sent while a complete pending action
\* awaits confirmation, discards that action without invoking it and is
\* handled exactly as the same message would be with no pending action: a
\* completion call is made, and the pending action left afterwards, if any, is
\* one this turn created, so a later confirmation cannot run the old one.
C6_AmbiguousReplyIsFreshCommand ==
    [][(Handled /\ Processed(out') /\ pendingAction # {} /\ Neither(out')
            /\ \A p \in pendingAction : ~needsMessage(p)) =>
        /\ out'.llm >= 1
        /\ \E C \in processChat([Context EXCEPT !.pendingAction = {}], out'.msg) :
                /\ history' = C.history
                /\ preferences' = C.preferences
                /\ pendingAction' = C.pendingAction
                /\ scheduleRegistry' = C.scheduleRegistry
                /\ out'.calls = C.calls
                /\ out'.llm = C.llm
                /\ out'.path = C.path
        /\ \/ pendingAction' = {}
           \/ /\ out'.path \in {"pendingCreated", "generated"}
              /\ \A q \in pendingAction' : q.originalRequest = out'.msg]_vars

\* a complete pending action was dropped by a message of neither grammar
C6_Dropped ==
    /\ Processed(out) /\ Neither(out)
    /\ out.pending # {} /\ \A p \in out.pending : ~needsMessage(p)
    /\ out.llm >= 1
    /\ pendingAction = {}

\* C7: while the pending send_imessage lacks its message, any non-empty user
\* message becomes that message and nothing is sent to the bridge in that
\* turn, so no pending action runs with an empty message.
C7_ClarificationNeverExecutes ==
    \A p \in out.pending :
        (Processed(out) /\ needsMessage(p) /\ out.msg # "") =>
            /\ out.calls = <<>>
            /\ pendingAction = {[p EXCEPT !.args = Put(p.args, "message", out.msg)]}

\* the window of the rate limiter is used up and still open
Exhausted == \E r \in rateLimit : r.count > RATE_LIMIT /\ now < r.resetAt

RateLimitedOps == {"POST /chat", "POST /execute", "WS chat"}

\* C8: a chat or execute request does its work only after a rate-limit check
\* that allowed it; once the window is used up such a request calls neither
\* the completion service nor the bridge and runs no chat turn.
C8_RateLimitBeforeWork ==
    out.op \in RateLimitedOps =>
        /\ (out.llm > 0 \/ out.calls # <<>> \/ out.path # "none") =>
                \E r \in out.rate : r.allowed
        /\ Exhausted => (out.llm = 0 /\ out.calls = <<>> /\ out.path = "none")

\* C9: checkRateLimit counts the calls of a window: a call inside the window
\* adds one to its count and is allowed exactly when at most MAX calls have
\* been made in it; a call with no window, or at or after resetAt, opens a
\* window ending 60 s later, has count 1 and is allowed; remaining is
\* max(0, MAX - count).
C9_FixedWindow ==
    [][(Handled /\ out'.rate # {}) =>
        LET r == CHOOSE r \in out'.rate : TRUE
        IN  /\ IF \E w \in rateLimit : now < w.resetAt
               THEN LET w == CHOOSE w \in rateLimit : TRUE
                    IN  /\ r.count = w.count + 1
                        /\ r.resetAt = w.resetAt
                        /\ r.allowed = (w.count < RATE_LIMIT)
               ELSE /\ r.count = 1
                    /\ r.resetAt = now + RATE_WINDOW
                    /\ r.allowed
            /\ r.remaining = (IF r.count >= RATE_LIMIT THEN 0 ELSE RATE_LIMIT - r.count)]_vars

\* the 61st call of a window was refused
C9_Refused == \E r \in out.rate : r.count = RATE_LIMIT + 1 /\ ~r.allowed /\ r.remaining = 0

\* C10: a firing removes from the registry exactly the record of the schedule
\* that fired when that record is one-time, and leaves the registry as it was
\* otherwise.
C10_FiringRemovesOwnOneTimeRecord ==
    [][(Handled /\ out'.op = "fire") =>
        scheduleRegistry' =
            IF \E i \in 1..Len(scheduleRegistry) :
                    scheduleRegistry[i].id = out'.id /\ scheduleRegistry[i].type = "one-time"
            THEN SelectSeq(scheduleRegistry, LAMBDA s : s.id # out'.id)
            ELSE scheduleRegistry]_vars

\* C11: every record of scheduleRegistry has a live trigger of the platform
\* with its id: no record outlives its trigger.
C11_RecordHasLiveTrigger ==
    \A i \in 1..Len(scheduleRegistry) :
        \E t \in triggers : t.id = scheduleRegistry[i].id

\* C12: the record scheduleAction appends has type "recurring" exactly when
\* parseWhen gave a cron expression (the trigger made for it is a cron
\* trigger), a cron written only with digits included, and "one-time" exactly
\* when it gave an instant; GET /schedules reports the type of each record.
C12_TypeFollowsParsedWhen ==
    [][/\ (Handled /\ Len(scheduleRegistry') = Len(scheduleRegistry) + 1) =>
            LET record == Last(scheduleRegistry')
            IN  \E t \in triggers' :
                    /\ t.id = record.id
                    /\ (record.type = "recurring") = t.cron
                    /\ (record.type = "one-time") = ~t.cron
       /\ (Handled /\ out'.op = "GET /schedules" /\ out'.status = 200) =>
            /\ Len(out'.body) = Len(scheduleRegistry)
            /\ \A i \in 1..Len(scheduleRegistry) :
                    /\ out'.body[i].id = scheduleRegistry[i].id
                    /\ out'.body[i].type = scheduleRegistry[i].type]_vars

C14_UnknownIdIsNoOp ==
    [][(Handled /\ out'.op = "DELETE /schedules" /\ out'.status # 429
            /\ ~inRegistry(scheduleRegistry, out'.id)) =>
        /\ out'.status = 200
        /\ UNCHANGED <<history, preferences, pendingAction, scheduleRegistry>>
        /\ \A t \in triggers : t.id # out'.id => t \in triggers']_vars

\* an unknown id was deleted while a schedule and a pending action existed
C14_UnknownDeleted ==
    /\ out.op = "DELETE /schedules" /\ out.status = 200 /\ out.path = "unknown"
    /\ pendingAction # {}
    /\ scheduleRegistry # <<>>
    /\ triggers # {}

\* C15: POST /reset leaves history empty, no pending action, an empty
\* registry and the preferences it found; a /reset that follows a /reset
\* changes nothing of the state but lastActive.
C15_ResetKeepsPreferences ==
    [][(Handled /\ out'.op = "POST /reset" /\ out'.status # 429) =>
        /\ history' = <<>>
        /\ pendingAction' = {}
        /\ scheduleRegistry' = <<>>
        /\ preferences' = preferences
        /\ (out.op = "POST /reset" /\ out.status = 200) =>
                UNCHANGED <<history, preferences, pendingAction, rateLimit,
                            scheduleRegistry>>]_vars

\* a reset emptied a session that had preferences and had made a schedule
C15_ResetDone ==
    /\ out.op = "POST /reset" /\ out.status = 200
    /\ preferences # {}
    /\ triggers # {}
    /\ history = <<>> /\ scheduleRegistry = <<>>

\* the hour of the day, 0..23, that a clock hour with its am/pm names
hour24(h, p) == IF p = "" THEN h ELSE (h % 12) + (IF p = "pm" THEN 12 ELSE 0)

\* a clock time that exists: 1..12 with am or pm, 0..23 without
validClock(when) ==
    /\ IF when.ampm = "" THEN when.hour \in 0..23 ELSE when.hour \in 1..12
    /\ \A k \in when.minute : k \in 0..59

\* C16: parseWhen called at time T returns, for "in N seconds|minutes|hours|
\* days", the instant T + N x unit; for "every day at H[:MM][am|pm]" the cron
\* string "MM HH * * *", HH being the hour of the day in 24-hour time (so
\* "every day at 9am" gives "0 9 * * *"); and for a text of no recognised form
\* that is no date either, the instant T + 60 s.
C16_ParseWhenForms ==
    ret # NotEvaluated =>
        /\ arg.form = "relative" =>
                /\ ret.kind = "date"
                /\ ret.at = now + arg.n * (CASE arg.unit = "second" -> 1000
                                             [] arg.unit = "minute" -> 60 * 1000
                                             [] arg.unit = "hour" -> 60 * 60 * 1000
                                             [] arg.unit = "day" -> 24 * 60 * 60 * 1000)
        /\ (arg.form = "daily" /\ validClock(arg)) =>
                /\ ret.kind = "cron"
                /\ ret.expr = ToString(IF arg.minute = {} THEN 0
                                        ELSE CHOOSE k \in arg.minute : TRUE)
                                \o " " \o ToString(hour24(arg.hour, arg.ampm)) \o " * * *"
        /\ arg.text = "every day at 9am" => ret.expr = "0 9 * * *"
        /\ arg.form = "none" => (ret.kind = "date" /\ ret.at = now + 60 * 1000)

\* "every day at 12:30am" was parsed, after midnight of the clock
C16_HalfPastMidnight ==
    /\ arg.text = "every day at 12:30am"
    /\ now > 0
    /\ ret.expr = "30 0 * * *"

\* the completion text of the turn that reply o answers
completionOf(o) ==
    CHOOSE c \in DirectiveCompletions \cup Responses \cup ScheduleCompletions
                    \cup BridgeCompletions \cup ChannelCompletions
                    \cup ActionCompletions : c.raw = o.raw

\* a block nothing can be made of: its JSON does not parse, or it is a
\* schedule without a string `when`
malformed(b) == ~b.ok \/ (b.fence = "schedule" /\ b.when.form = "absent")

\* C17: a chat turn whose completion text holds a malformed directive block
\* (JSON that does not parse, or a schedule lacking its string `when`) still
\* ends with a reply that carries the prose of the text, and every well-formed
\* action directive of the text is sent to the bridge.
C17_MalformedBlockIsDropped ==
    (Processed(out) /\ out.llm = 1 /\ out.raw # ""
        /\ \E i \in 1..Len(completionOf(out).blocks) : malformed(completionOf(out).blocks[i])) =>
            /\ out.status = 200
            /\ out.text.prose = completionOf(out).prose
            /\ Len(out.calls) = Len(parseActions(completionOf(out)))
            /\ \A i \in 1..Len(out.calls) :
                    out.calls[i].tool = parseActions(completionOf(out))[i].tool

completionFailed(o) == Processed(o) /\ o.path = "error" /\ o.llm = 1 /\ o.raw = ""

\* C19: a chat turn whose call of the completion service fails still answers
\* its caller, with a failed-turn result, and the user's message is appended
\* to history.
C19_FailedTurnKeepsMessage ==
    [][(Handled /\ completionFailed(out')) =>
        /\ out'.status = 500
        /\ history' = SliceLast(history \o <<User(out'.msg)>>, HISTORY_CAP)]_vars

C21_BadTokenRejectedAndTold ==
    [][(Handled /\ out'.op = "WS chat" /\ out'.id \in ConnectionIds
            /\ out'.token # API_SECRET) =>
        /\ out'.llm = 0
        /\ out'.calls = <<>>
        /\ UNCHANGED <<history, preferences, lastActive, pendingAction, rateLimit,
                       scheduleRegistry, triggers>>
        /\ out'.event = "notification"
        /\ out'.sent \cup out'.failed = {out'.id}]_vars

\* C22: the handling of a message and that of a firing, or of another
\* message, never overlap: while one handler is suspended at an await no
\* other handler of the session has started (sent a tool call, changed the
\* state) and is suspended as well.
C22_OneHandlerAtATime == \A a, b \in tasks : a = b

\* C29: a stored pending action is executed at most once: two confirmations
\* of the same pending action are never both in flight with their tool call
\* issued, whichever transports they came by.
C29_PendingExecutedOnce ==
    \A a, b \in tasks :
        (a.kind = "confirm" /\ b.kind = "confirm" /\ a.pending = b.pending) => a = b

\* C23: every chat turn that completes (a confirmation, a cancellation, a
\* clarification, a contact lookup that leaves a pending action, a normal
\* turn) appends the user's message followed by the assistant's reply to
\* history, and sets lastActive to the time of the turn.
C23_TurnAppendsBothAndStamps ==
    [][(Handled /\ Processed(out') /\ out'.status = 200) =>
        /\ Len(log') = Len(log) + 2
        /\ log'[Len(log) + 1] = User(out'.msg)
        /\ log'[Len(log) + 2].role = "assistant"
        /\ SubSeq(log', 1, Len(log)) = log
        /\ SubSeq(history', Len(history') - 1, Len(history')) = SubSeq(log', Len(log) + 1, Len(log) + 2)
        /\ lastActive' = now']_vars

\* C24: in a normal turn every well-formed action directive of the
\* completion text is invoked once, in the order written; the reply lists
\* one result per directive in that order, each with the tool of the
\* directive and the success the execution agent reported; the schedule
\* directive of the text is registered and reported in the reply.
C24_DirectivesRunInOrder ==
    [][(Handled /\ Processed(out') /\ out'.path = "normal") =>
        LET resp == completionOf(out')
            directives == parseActions(resp)
        IN  /\ Len(out'.calls) = Len(directives)
            /\ Len(out'.actions) = Len(directives)
            /\ \A i \in 1..Len(directives) :
                   /\ out'.calls[i].tool = directives[i].tool
                   /\ out'.calls[i].args = directives[i].args
                   /\ out'.actions[i].tool = directives[i].tool
                   /\ out'.actions[i].success = out'.calls[i].reply.success
            /\ \A sch \in parseSchedule(resp) :
                   \E s \in out'.scheduled :
                       /\ s.description = sch.description
                       /\ \E t \in triggers' \ triggers :
                              t.id = s.id /\ t.payload.tool = sch.tool
                       /\ \E i \in 1..Len(scheduleRegistry') :
                              scheduleRegistry'[i].id = s.id]_vars

\* a normal turn on a text with a schedule and two actions, of which the
\* first failed and the second succeeded
C24_TwoResultsInOrder ==
    /\ Processed(out) /\ out.path = "normal" /\ out.raw = "a_both"
    /\ Len(out.actions) = 2
    /\ out.actions[1].tool = "battery_status" /\ ~out.actions[1].success
    /\ out.actions[2].tool = "notify" /\ out.actions[2].success
    /\ out.scheduled # {}

\* C25: an instant returned by parseWhen is never earlier than the time of
\* the call.
C25_InstantNotInThePast == ret.kind = "date" => ret.at >= now

\* C26: for "every day at" and "every weekday at" the hour field of the cron
\* is the hour of the day in 24-hour time (12am is 0, 12pm is 12, Hpm is
\* H + 12), both forms give the same hour for the same clock time, and for
\* every text the patterns accept the hour field is in 0..23 and the minute
\* field in 0..59.
C26_ClockHourOfCron ==
    (ret # NotEvaluated /\ arg.form \in {"daily", "weekday"}) =>
        /\ ret.kind = "cron"
        /\ validClock(arg) => ret.fields[2] = ToString(hour24(arg.hour, arg.ampm))
        /\ parseWhen(DailyText(arg.hour, arg.minute, arg.ampm), now).fields[2]
             = parseWhen(WeekdayText(arg.hour, arg.minute, arg.ampm), now).fields[2]
        /\ ret.fields[2] \in {ToString(k) : k \in 0..23}
        /\ ret.fields[1] \in {ToString(k) : k \in 0..59}

\* C27: no request lowers the counter of a rate-limit window that is still
\* open, or replaces the window: until resetAt the stored record keeps its
\* resetAt and its count only grows, so at most MAX requests are allowed in
\* the window; POST /reset in particular leaves the record as it is.
C27_OpenWindowIsKept ==
    [][\A r \in rateLimit :
            now' < r.resetAt =>
                \E q \in rateLimit' : q.resetAt = r.resetAt /\ q.count >= r.count]_vars

\* C28: every live trigger has a record with its id in scheduleRegistry (so
\* GET /schedules lists it and DELETE by id can cancel it); after a
\* POST /reset, which empties the registry, no trigger is left to fire.
C28_LiveTriggerHasRecord ==
    \A t \in triggers : \E i \in 1..Len(scheduleRegistry) : scheduleRegistry[i].id = t.id

\* C30: when the handler of an authenticated chat message of the real-time
\* channel has run, one chat event or one error notification has been sent
\* on the connection the message came by, and on no other connection; also
\* when the completion call failed or a directive could not be processed.
\* (The handler is the only place that answers, so a message it leaves
\* unanswered is never answered.)
C30_ChatOnChannelIsAnswered ==
    [][(/\ Handled
        /\ out'.op = "WS chat"
        /\ Truthy(out'.msg)
        /\ Truthy(out'.token) /\ timingSafeEqual(out'.token, API_SECRET)
        /\ out'.failed = {}) =>
            /\ out'.event \in {"chat", "notification"}
            /\ out'.sent = {out'.id}]_vars

====
